---- MODULE Spec2Model ----
(***************************************************************************)
(* Komodo: a watchdog event handler that renames scanned PDFs after the    *)
(* barcode they carry, files them under ./<form_id>/<year>-<month>/ and    *)
(* keeps a path -> SHA-256 ledger (komodo.py), and its ledger-only         *)
(* sibling (monitor.py).                                                   *)
(*                                                                         *)
(* Strings (paths, file names, barcode values) are sequences of one-       *)
(* character strings, so that slicing, joining and suffix tests are        *)
(* computed as Python computes them.                                       *)
(*                                                                         *)
(* The observer delivers events from one dispatch thread: one handler      *)
(* invocation runs at a time, and other processes touch the watched tree   *)
(* only between invocations.  komodo.py's on_created is split into its     *)
(* stages (pc); every handler invocation ends in pc = "done" (it returned) *)
(* or pc = "crashed" (an exception left it).                               *)
(***************************************************************************)
EXTENDS Naturals, Sequences, FiniteSets, TLC

\* ------------------------------------------------------------------ bounds
\* Files other processes may have put in the tree at any one time.
MaxFiles == 2

\* Events the observer delivers in one behaviour.
MaxEvents == 2

\* Pages of a document given to extract_barcodes on its own.
MaxPages == 3

\* --------------------------------------------------------------- strings
None == <<"<None>">>

Truthy(s) == s # None /\ s # <<>>

Min(a, b) == IF a < b THEN a ELSE b

\* Python's s[a:b] for 0 <= a <= b.
Slice(s, a, b) == SubSeq(s, Min(a, Len(s)) + 1, Min(b, Len(s)))

EndsWith(s, suf) ==
    /\ Len(s) >= Len(suf)
    /\ SubSeq(s, Len(s) - Len(suf) + 1, Len(s)) = suf

StartsWith(s, pre) ==
    /\ Len(s) >= Len(pre)
    /\ SubSeq(s, 1, Len(pre)) = pre

LowerChar ==
    ("A" :> "a") @@ ("B" :> "b") @@ ("C" :> "c") @@ ("D" :> "d") @@ ("E" :> "e")
    @@ ("F" :> "f") @@ ("G" :> "g") @@ ("H" :> "h") @@ ("I" :> "i") @@ ("J" :> "j")
    @@ ("K" :> "k") @@ ("L" :> "l") @@ ("M" :> "m") @@ ("N" :> "n") @@ ("O" :> "o")
    @@ ("P" :> "p") @@ ("Q" :> "q") @@ ("R" :> "r") @@ ("S" :> "s") @@ ("T" :> "t")
    @@ ("U" :> "u") @@ ("V" :> "v") @@ ("W" :> "w") @@ ("X" :> "x") @@ ("Y" :> "y")
    @@ ("Z" :> "z")

Lower(s) == [i \in 1..Len(s) |-> IF s[i] \in DOMAIN LowerChar THEN LowerChar[s[i]] ELSE s[i]]

Sep == "/"

\* Index of the last separator of p, 0 when it has none.
LastSep(p) ==
    LET at == {i \in 1..Len(p) : p[i] = Sep}
    IN  IF at = {} THEN 0 ELSE CHOOSE i \in at : \A j \in at : j <= i

Dirname(p) == SubSeq(p, 1, LastSep(p) - 1)

Basename(p) == SubSeq(p, LastSep(p) + 1, Len(p))

PathJoin(a, b) ==
    IF Len(b) > 0 /\ b[1] = Sep THEN b
    ELSE IF a = <<>> \/ a[Len(a)] = Sep THEN a \o b
    ELSE a \o <<Sep>> \o b

PdfExt == <<".", "p", "d", "f">>

TmpExt == <<".", "t", "m", "p">>

Dot == <<".">>

\* folder_to_monitor of komodo.py, and of monitor.py.
Testing == <<"t", "e", "s", "t", "i", "n", "g">>

MonTesting == <<"T", "e", "s", "t", "i", "n", "g">>

Sub == <<"s", "u", "b">>

\* ------------------------------------------------------- the environment
\* Barcode payloads the decoder can return.
Tok1 == <<"2", "4", "0", "1", "1", "5", "F", "R", "M", "1", "J", "D">>

TokAB == <<"A", "B">>

\* Names under which other processes drop files, and the names rename_pdf gives.
ScanPdf == <<"s", "c", "a", "n", ".", "p", "d", "f">>

Tok1Pdf == Tok1 \o PdfExt

XTmp == <<"x", ".", "t", "m", "p">>

ABPdf == TokAB \o PdfExt

DropNames == {ScanPdf, Tok1Pdf, XTmp}

FileNames == DropNames \cup {ABPdf}

\* A document: whether fitz can open it, and per page whether rendering or
\* decoding throws and which barcodes the decoder returns.
Page(throws, barcodes) == [throws |-> throws, barcodes |-> barcodes]

Doc ==
    [c1 |-> [opens |-> TRUE, pages |-> <<Page(FALSE, <<Tok1>>)>>],
     c2 |-> [opens |-> TRUE, pages |-> <<Page(TRUE, <<>>), Page(FALSE, <<TokAB, Tok1>>)>>],
     c3 |-> [opens |-> TRUE, pages |-> <<Page(FALSE, <<>>)>>]]

Contents == DOMAIN Doc

\* hashlib.sha256 over the file's bytes: one digest per content.
Sha256(c) == <<"sha256", c>>

\* folder_path: komodo.py run on its own folder or on the working directory.
Roots == {Dot, Testing}

Msg(k, a, b) == [kind |-> k, a |-> a, b |-> b]

NoEvent == [type |-> "none", src |-> None, dest |-> None, is_directory |-> FALSE]

Event(t, p, q, d) == [type |-> t, src |-> p, dest |-> q, is_directory |-> d]

\* No second invocation of on_created is running.
NoRun ==
    [pc |-> "idle", src |-> None, attempts |-> 0, renamed_path |-> None,
     file_hash |-> None, organized_path |-> None]

\* extract_barcodes has not been applied on its own.
NoCall ==
    [pages |-> <<>>, applied |-> FALSE, exc |-> FALSE, value |-> None, out |-> <<>>,
     visited |-> <<>>]

VARIABLES
    program,        \* which script runs: "komodo" or "monitor"
    root,           \* folder_path given to monitor_folder
    fs,             \* files: path -> content
    dirs,           \* directories that exist
    store,          \* the ledger file: [exists, members]
    hashes,         \* self.hashes
    pdf_path,       \* self.pdf_path
    pc,             \* where the dispatch thread is
    event,          \* the event being handled
    attempts,       \* wait_for_file_stable's counter
    renamed_path,   \* on_created's locals
    file_hash,
    organized_path,
    log,            \* lines this invocation appended to the log file
    console,        \* lines this invocation printed
    saved,          \* save_hash_store in this invocation: "none", "ok", "failed"
    mutated,        \* this invocation changed self.hashes
    nev,            \* events delivered so far
    opens,          \* fitz.open calls extract_barcodes made on the document, this invocation
    handles,        \* file objects wait_for_file_stable holds open
    loop,           \* monitor_folder: "Idle", "Watching", "Stopping", "Stopped"
    other,          \* a second on_created invocation on the same handler instance
    queue,          \* events the observer has queued and not yet dispatched
    call            \* extract_barcodes applied on its own: its pages and its result

vars ==
    <<program, root, fs, dirs, store, hashes, pdf_path, pc, event, attempts,
      renamed_path, file_hash, organized_path, log, console, saved, mutated, nev,
      opens, handles, loop, other, queue, call>>

\* ---------------------------------------------------------------- ledger
EmptyMap == [k \in {} |-> None]

Upsert(h, k, v) == [x \in DOMAIN h \cup {k} |-> IF x = k THEN v ELSE h[x]]

Remove(h, k) == [x \in DOMAIN h \ {k} |-> h[x]]

\* json.dump of a dict: the object's members.
JsonDump(h) == {<<k, h[k]>> : k \in DOMAIN h}

\* json.load of an object: the dict of its members.
JsonLoad(m) == [k \in {x[1] : x \in m} |-> (CHOOSE x \in m : x[1] = k)[2]]

load_hash_store(st) == IF st.exists THEN JsonLoad(st.members) ELSE EmptyMap

\* save_hash_store writing the paths without their digests.
save_hash_store_keys(h) == [exists |-> TRUE, members |-> {<<k, k>> : k \in DOMAIN h}]

save_hash_store(h) == [exists |-> TRUE, members |-> JsonDump(h)]

\* should_ignore with an empty list of ignored extensions.
should_ignore_nothing(file_path) == FALSE

should_ignore(file_path) == \E ext \in {TmpExt} : EndsWith(file_path, ext)

calculate_file_hash(files, file_path, readOk) ==
    IF file_path \in DOMAIN files /\ readOk THEN Sha256(files[file_path]) ELSE None

\* ------------------------------------------------------------- pipeline
max_attempts == 5

RECURSIVE ExtractFrom_abort(_, _)
\* The page loop with the try around the loop instead of inside it: the first
\* page that throws ends the extraction.
ExtractFrom_abort(pages, i) ==
    IF i > Len(pages) THEN [value |-> None, out |-> <<>>, visited |-> <<>>]
    ELSE IF pages[i].throws
         THEN [value |-> None, out |-> <<Msg("page_error", <<i>>, None)>>, visited |-> <<i>>]
    ELSE IF pages[i].barcodes # <<>>
         THEN [value |-> pages[i].barcodes[1],
               out |-> <<Msg("found_barcode", pages[i].barcodes[1], <<i>>)>>,
               visited |-> <<i>>]
    ELSE LET rest == ExtractFrom_abort(pages, i + 1)
         IN  [rest EXCEPT !.visited = <<i>> \o rest.visited]

RECURSIVE ExtractFrom(_, _)
\* The page loop of extract_barcodes from page index i (1-based here): the
\* value returned, the lines printed, and the pages rendered (visited).
ExtractFrom(pages, i) ==
    IF i > Len(pages) THEN [value |-> None, out |-> <<>>, visited |-> <<>>]
    ELSE IF pages[i].throws
         THEN LET rest == ExtractFrom(pages, i + 1)
              IN  [value |-> rest.value,
                   out |-> <<Msg("page_error", <<i>>, None)>> \o rest.out,
                   visited |-> <<i>> \o rest.visited]
    ELSE IF pages[i].barcodes # <<>>
         THEN [value |-> pages[i].barcodes[1],
               out |-> <<Msg("found_barcode", pages[i].barcodes[1], <<i>>)>>,
               visited |-> <<i>>]
    ELSE LET rest == ExtractFrom(pages, i + 1)
         IN  [rest EXCEPT !.visited = <<i>> \o rest.visited]

FileNotFoundError ==
    <<"F", "i", "l", "e", "N", "o", "t", "F", "o", "u", "n", "d", "E", "r", "r", "o", "r">>

FileDataError == <<"F", "i", "l", "e", "D", "a", "t", "a", "E", "r", "r", "o", "r">>

OSError == <<"O", "S", "E", "r", "r", "o", "r">>

retries == 5

\* open_pdf_with_retries, given whether each successive fitz.open succeeds: the
\* calls made, and whether the last one raised.  Nothing calls it.
open_pdf_with_retries(opensOk) ==
    LET ok == {i \in 1..retries : opensOk[i]}
    IN  IF ok = {} THEN [exc |-> TRUE, opens |-> retries]
        ELSE [exc |-> FALSE, opens |-> CHOOSE i \in ok : \A j \in ok : i <= j]

\* doc = fitz.open(self.pdf_path), once: it raises on a document it cannot read
\* (openOk: the file's bytes are all there when it is opened); otherwise the
\* page loop.  opens: the calls of fitz.open made for doc.
extract_barcodes(doc, openOk) ==
    IF ~doc.opens \/ ~openOk
    THEN [exc |-> TRUE, err |-> FileDataError, opens |-> 1, value |-> None, out |-> <<>>,
          visited |-> <<>>]
    ELSE [exc |-> FALSE, err |-> None, opens |-> 1] @@ ExtractFrom(doc.pages, 1)

Exists(files, ds, p) == p \in DOMAIN files \/ p \in ds

\* A move that leaves the source in place.
MoveFile_copy(files, src, dst) ==
    [p \in DOMAIN files \cup {dst} |-> IF p = dst THEN files[src] ELSE files[p]]

MoveFile(files, src, dst) ==
    [p \in (DOMAIN files \ {src}) \cup {dst} |-> IF p = dst THEN files[src] ELSE files[p]]

\* rename_pdf without the os.path.exists test.
rename_pdf_overwrite(files, ds, path, openOk, osOk) ==
    LET ex == extract_barcodes(Doc[files[path]], openOk)
        new_name == ex.value \o PdfExt
        new_path == PathJoin(Dirname(path), new_name)
    IN  IF ex.exc \/ (Truthy(ex.value) /\ ~osOk)
        THEN [exc |-> TRUE, err |-> IF ex.exc THEN ex.err ELSE OSError, opens |-> ex.opens,
              fs |-> files, ret |-> None, out |-> ex.out]
        ELSE IF Truthy(ex.value)
        THEN [exc |-> FALSE, err |-> None, opens |-> ex.opens,
              fs |-> MoveFile(files, path, new_path), ret |-> new_path,
              out |-> ex.out \o <<Msg("renamed_to", new_name, None)>>]
        ELSE [exc |-> FALSE, err |-> None, opens |-> ex.opens, fs |-> files, ret |-> path,
              out |-> ex.out \o <<Msg("no_barcode_found", None, None)>>]

\* rename_pdf on self.pdf_path = path; osOk: os.rename succeeds.  fitz.open
\* raises for a path that holds no file.
rename_pdf(files, ds, path, openOk, osOk) ==
    LET ex == extract_barcodes(Doc[files[path]], openOk)
        new_name == ex.value \o PdfExt
        new_path == PathJoin(Dirname(path), new_name)
        done(ret, fs2, line) ==
            [exc |-> FALSE, err |-> None, opens |-> ex.opens, fs |-> fs2, ret |-> ret,
             out |-> ex.out \o <<line>>]
        raised(err) ==
            [exc |-> TRUE, err |-> err, opens |-> ex.opens, fs |-> files, ret |-> None,
             out |-> ex.out]
    IN  IF path \notin DOMAIN files
        THEN [exc |-> TRUE, err |-> FileNotFoundError, opens |-> 1, fs |-> files,
              ret |-> None, out |-> <<>>]
        ELSE IF ex.exc
        THEN raised(ex.err)
        ELSE IF Truthy(ex.value)
        THEN IF ~Exists(files, ds, new_path)
             THEN IF osOk
                  THEN done(new_path, MoveFile(files, path, new_path),
                            Msg("renamed_to", new_name, None))
                  ELSE raised(OSError)
             ELSE done(path, files, Msg("name_exists_skipping", new_name, None))
        ELSE done(path, files, Msg("no_barcode_found", None, None))

parse_barcode(file_name) ==
    LET date_part == Slice(file_name, 0, 6)
        form_id == Slice(file_name, 6, 10)
        year == <<"2", "0">> \o Slice(date_part, 0, 2)
        month == Slice(date_part, 2, 4)
    IN  <<form_id, year \o <<"-">> \o month>>

\* os.makedirs(d, exist_ok=True): d and its missing parents.
RECURSIVE Makedirs(_, _)
Makedirs(ds, d) ==
    IF d = <<>> \/ d \in ds THEN ds ELSE Makedirs(ds, Dirname(d)) \cup {d}

\* organize_file(src_path); osOk: makedirs and the move succeed (the move
\* raises when src_path holds no file); sameRaises:
\* a move onto the file itself raises (copy fallback) instead of doing nothing.
organize_file(files, ds, src_path, osOk, sameRaises) ==
    LET file_name == Basename(src_path)
        parsed == parse_barcode(file_name)
        form_id == parsed[1]
        month == parsed[2]
        dest_dir == PathJoin(PathJoin(Dot, form_id), month)
        dest_path == PathJoin(dest_dir, file_name)
    IN  IF Truthy(form_id) /\ Truthy(month)
        THEN IF ~osOk \/ src_path \notin DOMAIN files \/ (dest_path = src_path /\ sameRaises)
             THEN [exc |-> TRUE, fs |-> files,
                   dirs |-> IF osOk THEN Makedirs(ds, dest_dir) ELSE ds,
                   ret |-> None, log |-> <<>>]
             ELSE [exc |-> FALSE, fs |-> MoveFile(files, src_path, dest_path),
                   dirs |-> Makedirs(ds, dest_dir), ret |-> dest_path,
                   log |-> <<Msg("moved_to", dest_path, None)>>]
        ELSE [exc |-> FALSE, fs |-> files, dirs |-> ds, ret |-> None,
              log |-> <<Msg("failed_to_organize", src_path, None)>>]

\* --------------------------------------------------------------- events
DestDir(n) == PathJoin(PathJoin(Dot, parse_barcode(n)[1]), parse_barcode(n)[2])

Organizable == {n \in FileNames : Truthy(parse_barcode(n)[1])}

DestDirs == {DestDir(n) : n \in Organizable}

Under(p, r) == StartsWith(p, r \o <<Sep>>)

AllRoots == Roots \cup {MonTesting}

\* File paths the observer of r can report (recursive=True).
EventPaths ==
    [r \in AllRoots |->
        {p \in {PathJoin(r, n) : n \in FileNames}
                \cup {PathJoin(DestDir(n), n) : n \in Organizable} : Under(p, r)}]

\* Directory paths the observer of r can report.
EventDirs ==
    [r \in AllRoots |->
        {d \in DestDirs \cup {Dirname(x) : x \in DestDirs} \cup {PathJoin(r, Sub)} :
            Under(d, r)}]

\* File paths of the watched folder itself.
TopPaths == [r \in AllRoots |-> {PathJoin(r, n) : n \in FileNames}]

\* The handler after __init__, the tree empty, no ledger file.
InitBase ==
    /\ \/ program = "komodo" /\ root \in Roots
       \/ program = "monitor" /\ root = MonTesting
    /\ fs = EmptyMap
    /\ dirs = {Dot, root}
    /\ store = [exists |-> FALSE, members |-> {}]
    /\ hashes = load_hash_store(store)
    /\ pdf_path = None
    /\ pc = "idle"
    /\ event = NoEvent
    /\ attempts = 0
    /\ renamed_path = None
    /\ file_hash = None
    /\ organized_path = None
    /\ log = <<>>
    /\ console = <<>>
    /\ saved = "none"
    /\ mutated = FALSE
    /\ nev = 0
    /\ opens = 0
    /\ handles = 0
    /\ loop = "Idle"
    /\ other = NoRun
    /\ queue = <<>>

Init == InitBase /\ call = NoCall

\* monitor_folder: observer.start(), then the sleep loop.
Start ==
    /\ loop = "Idle"
    /\ loop' = "Watching"
    /\ UNCHANGED <<program, root, fs, dirs, store, hashes, pdf_path, pc, event, attempts,
                   renamed_path, file_hash, organized_path, log, console, saved, mutated, nev>>
    /\ UNCHANGED <<opens, handles, other, queue, call>>

\* Other processes: a scanner or a user creating, rewriting, deleting files.
\* komodo.py handles creation events only; for it a file that is gone when its
\* event is handled is an event for a path that holds no file.
EnvCreate(n, c) ==
    /\ pc = "idle"
    /\ Cardinality(DOMAIN fs) < MaxFiles
    /\ PathJoin(root, n) \notin DOMAIN fs
    /\ fs' = (PathJoin(root, n) :> c) @@ fs
    /\ UNCHANGED <<program, root, dirs, store, hashes, pdf_path, pc, event, attempts,
                   renamed_path, file_hash, organized_path, log, console, saved, mutated, nev>>
    /\ UNCHANGED <<opens, handles, loop, other, queue, call>>

EnvModify(p, c) ==
    /\ pc = "idle"
    /\ program = "monitor"
    /\ p \in DOMAIN fs
    /\ fs[p] # c
    /\ fs' = [fs EXCEPT ![p] = c]
    /\ UNCHANGED <<program, root, dirs, store, hashes, pdf_path, pc, event, attempts,
                   renamed_path, file_hash, organized_path, log, console, saved, mutated, nev>>
    /\ UNCHANGED <<opens, handles, loop, other, queue, call>>

EnvDelete(p) ==
    /\ pc = "idle"
    /\ program = "monitor"
    /\ p \in DOMAIN fs
    /\ fs' = [q \in DOMAIN fs \ {p} |-> fs[q]]
    /\ UNCHANGED <<program, root, dirs, store, hashes, pdf_path, pc, event, attempts,
                   renamed_path, file_hash, organized_path, log, console, saved, mutated, nev>>
    /\ UNCHANGED <<opens, handles, loop, other, queue, call>>

\* komodo.py on_created, up to the stabilization wait.
KOnCreated(p, isdir) ==
    /\ pc = "idle"
    /\ loop = "Watching"
    /\ program = "komodo"
    /\ nev < MaxEvents
    /\ nev' = nev + 1
    /\ event' = Event("created", p, None, isdir)
    /\ IF ~isdir /\ ~should_ignore(p)
       THEN /\ pdf_path' = p
            /\ pc' = "stabilize"
       ELSE /\ pc' = "done"
            /\ UNCHANGED pdf_path
    /\ attempts' = 0
    /\ UNCHANGED <<program, root, fs, dirs, store, hashes, renamed_path, file_hash,
                   organized_path, log, console, saved, mutated>>
    /\ UNCHANGED <<opens, handles, loop, other, queue, call>>

\* on_created with the probe loop giving up one attempt early.
KProbe_short(openOk) ==
    /\ pc = "stabilize"
    /\ IF event.src \in DOMAIN fs /\ openOk
       THEN /\ pc' = "probed"
            /\ handles' = handles + 1
            /\ UNCHANGED <<attempts, console>>
       ELSE /\ attempts' = attempts + 1
            /\ UNCHANGED handles
            /\ IF attempts + 2 < max_attempts
               THEN pc' = "stabilize" /\ UNCHANGED console
               ELSE /\ pc' = "done"
                    /\ console' = Append(console, Msg("file_not_ready", pdf_path, None))
    /\ UNCHANGED <<program, root, fs, dirs, store, hashes, pdf_path, event, renamed_path,
                   file_hash, organized_path, log, saved, mutated, nev>>
    /\ UNCHANGED <<opens, loop, other, queue, call>>

\* One probe of wait_for_file_stable, whose file_path is the path of the event
\* (self.pdf_path as on_created has just set it): open(file_path, 'rb') enters the with
\* block, or raises and the loop sleeps and counts; after max_attempts failures
\* the function returns False and on_created prints and returns.
KProbe(openOk) ==
    /\ pc = "stabilize"
    /\ IF event.src \in DOMAIN fs /\ openOk
       THEN /\ pc' = "probed"
            /\ handles' = handles + 1
            /\ UNCHANGED <<attempts, console>>
       ELSE /\ attempts' = attempts + 1
            /\ UNCHANGED handles
            /\ IF attempts + 1 < max_attempts
               THEN pc' = "stabilize" /\ UNCHANGED console
               ELSE /\ pc' = "done"
                    /\ console' = Append(console, Msg("file_not_ready", pdf_path, None))
    /\ UNCHANGED <<program, root, fs, dirs, store, hashes, pdf_path, event, renamed_path,
                   file_hash, organized_path, log, saved, mutated, nev>>
    /\ UNCHANGED <<opens, loop, other, queue, call>>

\* return True leaves the with block, which closes the file; on_created then
\* tests the extension.
KProbeExit ==
    /\ pc = "probed"
    /\ handles' = handles - 1
    /\ pc' = IF EndsWith(Lower(pdf_path), PdfExt) THEN "rename" ELSE "done"
    /\ UNCHANGED <<program, root, fs, dirs, store, hashes, pdf_path, event, attempts,
                   renamed_path, file_hash, organized_path, log, console, saved, mutated, nev>>
    /\ UNCHANGED <<opens, loop, other, queue, call>>

\* renamed_path = self.rename_pdf()
KRename(openOk, osOk) ==
    /\ pc = "rename"
    /\ LET r == rename_pdf(fs, dirs, pdf_path, openOk, osOk)
       IN  /\ fs' = r.fs
           /\ renamed_path' = r.ret
           /\ opens' = r.opens
           /\ IF r.exc
              THEN /\ pc' = "done"
                   /\ console' = console \o r.out \o <<Msg("error_processing", pdf_path, r.err)>>
              ELSE /\ pc' = "hash"
                   /\ console' = console \o r.out
    /\ UNCHANGED <<program, root, dirs, store, hashes, pdf_path, event, attempts,
                   file_hash, organized_path, log, saved, mutated, nev>>
    /\ UNCHANGED <<handles, loop, other, queue, call>>

\* file_hash = self.calculate_file_hash(renamed_path)
KHash(readOk) ==
    /\ pc = "hash"
    /\ file_hash' = calculate_file_hash(fs, renamed_path, readOk)
    /\ console' = IF file_hash' = None
                  THEN Append(console, Msg("error_hashing", renamed_path, None))
                  ELSE console
    /\ pc' = "organize"
    /\ UNCHANGED <<program, root, fs, dirs, store, hashes, pdf_path, event, attempts,
                   renamed_path, organized_path, log, saved, mutated, nev>>
    /\ UNCHANGED <<opens, handles, loop, other, queue, call>>

\* organized_path = self.organize_file(renamed_path)
KOrganize(osOk, sameRaises) ==
    /\ pc = "organize"
    /\ LET r == organize_file(fs, dirs, renamed_path, osOk, sameRaises)
       IN  /\ fs' = r.fs
           /\ dirs' = r.dirs
           /\ organized_path' = r.ret
           /\ log' = log \o r.log
           /\ IF r.exc
              THEN /\ pc' = "done"
                   /\ console' = console \o <<Msg("error_processing", pdf_path, OSError)>>
              ELSE /\ pc' = "record"
                   /\ console' = console \o r.log
    /\ UNCHANGED <<program, root, store, hashes, pdf_path, event, attempts,
                   renamed_path, file_hash, saved, mutated, nev>>
    /\ UNCHANGED <<opens, handles, loop, other, queue, call>>

\* if file_hash: self.hashes[renamed_path] = file_hash; save; log.
KRecord(writeOk) ==
    /\ pc = "record"
    /\ pc' = "done"
    /\ IF file_hash # None
       THEN /\ hashes' = Upsert(hashes, renamed_path, file_hash)
            /\ mutated' = (hashes' # hashes)
            /\ IF writeOk
               THEN /\ store' = save_hash_store(hashes')
                    /\ saved' = "ok"
                    /\ log' = Append(log, Msg("created_and_renamed", renamed_path, file_hash))
                    /\ console' = Append(console, Msg("created_and_renamed", renamed_path, file_hash))
               ELSE /\ saved' = "failed"
                    /\ console' = Append(console, Msg("error_processing", pdf_path, OSError))
                    /\ UNCHANGED <<store, log>>
       ELSE UNCHANGED <<hashes, mutated, store, saved, log, console>>
    /\ UNCHANGED <<program, root, fs, dirs, pdf_path, event, attempts, renamed_path,
                   file_hash, organized_path, nev>>
    /\ UNCHANGED <<opens, handles, loop, other, queue, call>>

\* ---------------------------------------------------- monitor.py handlers
\* What a handler of monitor.py does up to its return or to the exception that
\* leaves it: the ledger, the log lines, and whether it calls save_hash_store
\* (after = log lines written once the save has returned).
Effect(h, lg, saves, after) == [hashes |-> h, log |-> lg, saves |-> saves, after |-> after]

\* on_created of monitor.py without its test of file_hash.
mon_on_created_unchecked(h, e, digest) ==
    IF ~e.is_directory /\ ~should_ignore(e.src)
    THEN Effect(Upsert(h, e.src, digest), <<>>, TRUE,
                <<Msg("created", e.src, digest)>>)
    ELSE Effect(h, <<>>, FALSE, <<>>)

mon_on_created(h, e, digest) ==
    IF ~e.is_directory /\ ~should_ignore(e.src) /\ digest # None
    THEN Effect(Upsert(h, e.src, digest), <<>>, TRUE,
                <<Msg("created", e.src, digest)>>)
    ELSE Effect(h, <<>>, FALSE, <<>>)

mon_on_modified(h, e, digest) ==
    IF ~e.is_directory /\ ~should_ignore(e.src) /\ digest # None
    THEN IF e.src \in DOMAIN h
         THEN IF h[e.src] = digest
              THEN Effect(h, <<Msg("modified_no_changes", e.src, digest)>>, TRUE, <<>>)
              ELSE Effect(Upsert(h, e.src, digest),
                          <<Msg("modified_hash_changed", e.src, digest)>>, TRUE, <<>>)
         ELSE Effect(Upsert(h, e.src, digest),
                     <<Msg("modified_newly_added", e.src, digest)>>, TRUE, <<>>)
    ELSE Effect(h, <<>>, FALSE, <<>>)

\* on_deleted of monitor.py logging the deletion and keeping the entry.
mon_on_deleted_keep(h, e) ==
    IF ~e.is_directory /\ ~should_ignore(e.src) /\ e.src \in DOMAIN h
    THEN Effect(h, <<Msg("deleted", e.src, h[e.src])>>, TRUE, <<>>)
    ELSE Effect(h, <<>>, FALSE, <<>>)

mon_on_deleted(h, e) ==
    IF ~e.is_directory /\ ~should_ignore(e.src) /\ e.src \in DOMAIN h
    THEN Effect(Remove(h, e.src), <<Msg("deleted", e.src, h[e.src])>>, TRUE, <<>>)
    ELSE Effect(h, <<>>, FALSE, <<>>)

mon_on_moved(h, e) ==
    IF ~e.is_directory /\ ~should_ignore(e.src) /\ ~should_ignore(e.dest)
    THEN IF e.src \in DOMAIN h
         THEN Effect(Upsert(Remove(h, e.src), e.dest, h[e.src]), <<>>, TRUE,
                     <<Msg("moved", e.src, e.dest)>>)
         ELSE Effect(h, <<Msg("moved_untracked", e.src, e.dest)>>, FALSE, <<>>)
    ELSE Effect(h, <<>>, FALSE, <<>>)

\* One handler invocation of monitor.py on event e with effect eff; writeOk: the
\* ledger file can be written.  No handler of monitor.py catches the error of
\* save_hash_store.
\* The queue of the observer is left to the action that dispatches e.
MonHandle(e, eff, writeOk) ==
    /\ pc = "idle"
    /\ loop = "Watching"
    /\ program = "monitor"
    /\ nev < MaxEvents
    /\ nev' = nev + 1
    /\ event' = e
    /\ hashes' = eff.hashes
    /\ mutated' = (eff.hashes # hashes)
    /\ IF ~eff.saves
       THEN /\ pc' = "done"
            /\ log' = eff.log
            /\ UNCHANGED <<store, saved>>
       ELSE IF writeOk
       THEN /\ pc' = "done"
            /\ store' = save_hash_store(eff.hashes)
            /\ saved' = "ok"
            /\ log' = eff.log \o eff.after
       ELSE /\ pc' = "crashed"
            /\ saved' = "failed"
            /\ log' = eff.log
            /\ UNCHANGED store
    /\ console' = log'
    /\ UNCHANGED <<program, root, fs, dirs, pdf_path, attempts, renamed_path,
                   organized_path>>
    /\ UNCHANGED <<opens, handles, loop, other, call>>

MOnCreated(p, isdir, readOk, writeOk) ==
    /\ UNCHANGED queue
    /\ file_hash' = IF ~isdir /\ ~should_ignore(p)
                    THEN calculate_file_hash(fs, p, readOk) ELSE None
    /\ MonHandle(Event("created", p, None, isdir),
                 mon_on_created(hashes, Event("created", p, None, isdir), file_hash'),
                 writeOk)

MOnModified(p, isdir, readOk, writeOk) ==
    /\ UNCHANGED queue
    /\ file_hash' = IF ~isdir /\ ~should_ignore(p)
                    THEN calculate_file_hash(fs, p, readOk) ELSE None
    /\ MonHandle(Event("modified", p, None, isdir),
                 mon_on_modified(hashes, Event("modified", p, None, isdir), file_hash'),
                 writeOk)

MOnDeleted(p, isdir, writeOk) ==
    /\ UNCHANGED <<file_hash, queue>>
    /\ MonHandle(Event("deleted", p, None, isdir),
                 mon_on_deleted(hashes, Event("deleted", p, None, isdir)), writeOk)

MOnMoved(p, q, isdir, writeOk) ==
    /\ UNCHANGED <<file_hash, queue>>
    /\ MonHandle(Event("moved", p, q, isdir),
                 mon_on_moved(hashes, Event("moved", p, q, isdir)), writeOk)

\* The handler has returned: the dispatch thread takes the next event.
Return ==
    /\ pc = "done"
    /\ pc' = "idle"
    /\ event' = NoEvent
    /\ attempts' = 0
    /\ renamed_path' = None
    /\ file_hash' = None
    /\ organized_path' = None
    /\ log' = <<>>
    /\ console' = <<>>
    /\ saved' = "none"
    /\ mutated' = FALSE
    /\ opens' = 0
    /\ UNCHANGED <<program, root, fs, dirs, store, hashes, pdf_path, nev>>
    /\ UNCHANGED <<handles, loop, other, queue, call>>

\* The script is started again: __init__ reloads the ledger.
Restart ==
    /\ pc \in {"idle", "crashed"}
    /\ pc' = "idle"
    /\ hashes' = load_hash_store(store)
    /\ pdf_path' = None
    /\ event' = NoEvent
    /\ attempts' = 0
    /\ renamed_path' = None
    /\ file_hash' = None
    /\ organized_path' = None
    /\ log' = <<>>
    /\ console' = <<>>
    /\ saved' = "none"
    /\ mutated' = FALSE
    /\ opens' = 0
    /\ UNCHANGED <<program, root, fs, dirs, store, nev>>
    /\ UNCHANGED <<handles, loop, other, queue, call>>

Next ==
    \/ Start
    \/ \E n \in DropNames, c \in Contents : EnvCreate(n, c)
    \/ \E p \in DOMAIN fs, c \in Contents : EnvModify(p, c)
    \/ \E p \in DOMAIN fs : EnvDelete(p)
    \/ \E p \in EventPaths[root] : KOnCreated(p, FALSE)
    \/ \E d \in EventDirs[root] : KOnCreated(d, TRUE)
    \/ \E ok \in BOOLEAN : KProbe(ok)
    \/ KProbeExit
    \/ \E openOk \in BOOLEAN, ok \in BOOLEAN : KRename(openOk, ok)
    \/ \E ok \in BOOLEAN : KHash(ok)
    \/ \E ok \in BOOLEAN, same \in BOOLEAN : KOrganize(ok, same)
    \/ \E ok \in BOOLEAN : KRecord(ok)
    \/ \E p \in TopPaths[root], ok \in BOOLEAN, w \in BOOLEAN : MOnCreated(p, FALSE, ok, w)
    \/ \E p \in TopPaths[root], ok \in BOOLEAN, w \in BOOLEAN : MOnModified(p, FALSE, ok, w)
    \/ \E p \in TopPaths[root], w \in BOOLEAN : MOnDeleted(p, FALSE, w)
    \/ \E p \in TopPaths[root], q \in TopPaths[root], w \in BOOLEAN : MOnMoved(p, q, FALSE, w)
    \/ \E d \in EventDirs[root], w \in BOOLEAN :
          \/ MOnCreated(d, TRUE, TRUE, w)
          \/ MOnModified(d, TRUE, TRUE, w)
          \/ MOnDeleted(d, TRUE, w)
          \/ MOnMoved(d, d \o <<"2">>, TRUE, w)
    \/ Return
    \/ Restart

Spec == Init /\ [][Next]_vars

\* The scripts as their __main__ runs them: komodo.py on "testing", monitor.py
\* on "Testing".
InitMain == Init /\ root \in {Testing, MonTesting}

SpecMain == InitMain /\ [][Next]_vars

\* ------------------------------------------- duplicate creation events
\* on_created has returned; the log file and the console keep their lines.
DupReturn ==
    /\ pc = "done"
    /\ pc' = "idle"
    /\ event' = NoEvent
    /\ attempts' = 0
    /\ renamed_path' = None
    /\ file_hash' = None
    /\ organized_path' = None
    /\ saved' = "none"
    /\ mutated' = FALSE
    /\ opens' = 0
    /\ UNCHANGED <<program, root, fs, dirs, store, hashes, pdf_path, nev, log, console>>
    /\ UNCHANGED <<handles, loop, other, queue, call>>

\* The observer reports the creation of one file twice: both events are queued
\* before the first run ends, the dispatch thread hands the second to
\* on_created when the first run has returned, and nothing else touches the
\* tree meanwhile.
NextDup ==
    \/ Start
    \/ \E n \in DropNames, c \in Contents : nev = 0 /\ EnvCreate(n, c)
    \/ \E p \in TopPaths[root] : nev = 0 /\ ~should_ignore(p) /\ KOnCreated(p, FALSE)
    \/ nev = 1 /\ KOnCreated(pdf_path, FALSE)
    \/ \E ok \in BOOLEAN : KProbe(ok)
    \/ KProbeExit
    \/ \E openOk \in BOOLEAN, ok \in BOOLEAN : KRename(openOk, ok)
    \/ \E ok \in BOOLEAN : KHash(ok)
    \/ \E ok \in BOOLEAN, same \in BOOLEAN : KOrganize(ok, same)
    \/ \E ok \in BOOLEAN : KRecord(ok)
    \/ DupReturn

SpecDup == Init /\ [][NextDup]_vars

\* ------------------------------------------- extract_barcodes on its own
\* Documents of up to MaxPages pages: a page whose rendering or decoding throws
\* (whatever it carries), a page without barcode, a page with one barcode, a
\* page with two.
PageKinds ==
    {Page(TRUE, <<>>), Page(TRUE, <<Tok1>>), Page(FALSE, <<>>), Page(FALSE, <<Tok1>>),
     Page(FALSE, <<TokAB, Tok1>>)}

PageSeqs == UNION {[1..n -> PageKinds] : n \in 0..MaxPages}

InitExtract ==
    /\ InitBase
    /\ program = "komodo"
    /\ root = Testing
    /\ call \in {[NoCall EXCEPT !.pages = ps] : ps \in PageSeqs}

\* self.extract_barcodes() on a document of pages call.pages.
ExtractCall(openOk) ==
    /\ ~call.applied
    /\ call' = [pages |-> call.pages, applied |-> TRUE]
                @@ [x \in {"exc", "value", "out", "visited"} |->
                      extract_barcodes([opens |-> TRUE, pages |-> call.pages], openOk)[x]]
    /\ UNCHANGED <<program, root, fs, dirs, store, hashes, pdf_path, pc, event, attempts,
                   renamed_path, file_hash, organized_path, log, console, saved, mutated, nev>>
    /\ UNCHANGED <<opens, handles, loop, other, queue>>

NextExtract == \E openOk \in BOOLEAN : ExtractCall(openOk)

SpecExtract == InitExtract /\ [][NextExtract]_vars

\* ------------------------------------- two invocations on one instance
\* A host that hands events to the handler from two threads: beside the
\* invocation of on_created the K actions follow, a second one runs on the same
\* FileChangeLogger, its locals in the record other.  Both read and write
\* self.pdf_path, self.hashes, the files and the outputs.
OOnCreated(p) ==
    /\ other.pc = "idle"
    /\ loop = "Watching"
    /\ program = "komodo"
    /\ ~should_ignore(p)
    /\ pdf_path' = p
    /\ other' = [NoRun EXCEPT !.pc = "stabilize", !.src = p]
    /\ UNCHANGED <<fs, dirs, store, hashes, log, console>>
    /\ UNCHANGED <<program, root, pc, event, attempts, renamed_path, file_hash,
                   organized_path, saved, mutated, nev, opens, handles, loop, queue, call>>

OProbe(openOk) ==
    /\ other.pc = "stabilize"
    /\ IF other.src \in DOMAIN fs /\ openOk
       THEN /\ other' = [other EXCEPT
                           !.pc = IF EndsWith(Lower(pdf_path), PdfExt) THEN "rename" ELSE "done"]
            /\ UNCHANGED console
       ELSE IF other.attempts + 1 < max_attempts
       THEN /\ other' = [other EXCEPT !.attempts = @ + 1]
            /\ UNCHANGED console
       ELSE /\ other' = [other EXCEPT !.attempts = @ + 1, !.pc = "done"]
            /\ console' = Append(console, Msg("file_not_ready", pdf_path, None))
    /\ UNCHANGED <<fs, dirs, store, hashes, pdf_path, log>>
    /\ UNCHANGED <<program, root, pc, event, attempts, renamed_path, file_hash,
                   organized_path, saved, mutated, nev, opens, handles, loop, queue, call>>

ORename(openOk, osOk) ==
    /\ other.pc = "rename"
    /\ LET r == rename_pdf(fs, dirs, pdf_path, openOk, osOk)
       IN  /\ fs' = r.fs
           /\ IF r.exc
              THEN /\ other' = [other EXCEPT !.pc = "done"]
                   /\ console' = console \o r.out \o <<Msg("error_processing", pdf_path, r.err)>>
              ELSE /\ other' = [other EXCEPT !.pc = "hash", !.renamed_path = r.ret]
                   /\ console' = console \o r.out
    /\ UNCHANGED <<dirs, store, hashes, pdf_path, log>>
    /\ UNCHANGED <<program, root, pc, event, attempts, renamed_path, file_hash,
                   organized_path, saved, mutated, nev, opens, handles, loop, queue, call>>

OHash(readOk) ==
    /\ other.pc = "hash"
    /\ LET h == calculate_file_hash(fs, other.renamed_path, readOk)
       IN  /\ other' = [other EXCEPT !.pc = "organize", !.file_hash = h]
           /\ console' = IF h = None
                         THEN Append(console, Msg("error_hashing", other.renamed_path, None))
                         ELSE console
    /\ UNCHANGED <<fs, dirs, store, hashes, pdf_path, log>>
    /\ UNCHANGED <<program, root, pc, event, attempts, renamed_path, file_hash,
                   organized_path, saved, mutated, nev, opens, handles, loop, queue, call>>

OOrganize(osOk, sameRaises) ==
    /\ other.pc = "organize"
    /\ LET r == organize_file(fs, dirs, other.renamed_path, osOk, sameRaises)
       IN  /\ fs' = r.fs
           /\ dirs' = r.dirs
           /\ log' = log \o r.log
           /\ IF r.exc
              THEN /\ other' = [other EXCEPT !.pc = "done"]
                   /\ console' = console \o <<Msg("error_processing", pdf_path, OSError)>>
              ELSE /\ other' = [other EXCEPT !.pc = "record", !.organized_path = r.ret]
                   /\ console' = console \o r.log
    /\ UNCHANGED <<store, hashes, pdf_path>>
    /\ UNCHANGED <<program, root, pc, event, attempts, renamed_path, file_hash,
                   organized_path, saved, mutated, nev, opens, handles, loop, queue, call>>

ORecord(writeOk) ==
    /\ other.pc = "record"
    /\ other' = [other EXCEPT !.pc = "done"]
    /\ IF other.file_hash # None
       THEN /\ hashes' = Upsert(hashes, other.renamed_path, other.file_hash)
            /\ IF writeOk
               THEN /\ store' = save_hash_store(hashes')
                    /\ log' = Append(log, Msg("created_and_renamed", other.renamed_path,
                                              other.file_hash))
                    /\ console' = Append(console, Msg("created_and_renamed",
                                                      other.renamed_path, other.file_hash))
               ELSE /\ console' = Append(console, Msg("error_processing", pdf_path, OSError))
                    /\ UNCHANGED <<store, log>>
       ELSE UNCHANGED <<hashes, store, log, console>>
    /\ UNCHANGED <<fs, dirs, pdf_path>>
    /\ UNCHANGED <<program, root, pc, event, attempts, renamed_path, file_hash,
                   organized_path, saved, mutated, nev, opens, handles, loop, queue, call>>

\* Files are dropped, then each invocation handles the creation of one; every
\* open, read, rename, move and write succeeds when its file is there.
NextInter ==
    \/ Start
    \/ \E n \in DropNames, c \in Contents : nev = 0 /\ other.pc = "idle" /\ EnvCreate(n, c)
    \/ \E p \in TopPaths[root] : nev = 0 /\ ~should_ignore(p) /\ KOnCreated(p, FALSE)
    \/ KProbe(TRUE)
    \/ KProbeExit
    \/ KRename(TRUE, TRUE)
    \/ KHash(TRUE)
    \/ KOrganize(TRUE, FALSE)
    \/ KRecord(TRUE)
    \/ \E p \in TopPaths[root] : OOnCreated(p)
    \/ OProbe(TRUE)
    \/ ORename(TRUE, TRUE)
    \/ OHash(TRUE)
    \/ OOrganize(TRUE, FALSE)
    \/ ORecord(TRUE)

SpecInter == InitMain /\ [][NextInter]_vars

\* ------------------------------------- monitor.py following the tree
\* Other processes create, rewrite and delete readable files with names that
\* are not ignored, in the watched folder; the observer queues one event for
\* each operation, and hands the events to the handler in that order.
TrackNames == {n \in DropNames : ~should_ignore(n)}

CanOperate ==
    /\ program = "monitor"
    /\ loop = "Watching"
    /\ nev + Len(queue) < MaxEvents

FsCreate(n, c) ==
    /\ CanOperate
    /\ Cardinality(DOMAIN fs) < MaxFiles
    /\ PathJoin(root, n) \notin DOMAIN fs
    /\ fs' = (PathJoin(root, n) :> c) @@ fs
    /\ queue' = Append(queue, Event("created", PathJoin(root, n), None, FALSE))
    /\ UNCHANGED <<program, root, dirs, store, hashes, pdf_path, pc, event, attempts,
                   renamed_path, file_hash, organized_path, log, console, saved, mutated, nev>>
    /\ UNCHANGED <<opens, handles, loop, other, call>>

\* A file rewritten, with other content or (c = fs[p]) with the same.
FsModify(p, c) ==
    /\ CanOperate
    /\ p \in DOMAIN fs
    /\ fs' = [fs EXCEPT ![p] = c]
    /\ queue' = Append(queue, Event("modified", p, None, FALSE))
    /\ UNCHANGED <<program, root, dirs, store, hashes, pdf_path, pc, event, attempts,
                   renamed_path, file_hash, organized_path, log, console, saved, mutated, nev>>
    /\ UNCHANGED <<opens, handles, loop, other, call>>

FsDelete(p) ==
    /\ CanOperate
    /\ p \in DOMAIN fs
    /\ fs' = [q \in DOMAIN fs \ {p} |-> fs[q]]
    /\ queue' = Append(queue, Event("deleted", p, None, FALSE))
    /\ UNCHANGED <<program, root, dirs, store, hashes, pdf_path, pc, event, attempts,
                   renamed_path, file_hash, organized_path, log, console, saved, mutated, nev>>
    /\ UNCHANGED <<opens, handles, loop, other, call>>

\* The dispatch thread takes the first queued event and calls its handler; the
\* file, when it is there, can be read and the ledger file can be written.
Deliver ==
    /\ queue # <<>>
    /\ queue' = Tail(queue)
    /\ LET e == Head(queue)
       IN  \/ /\ e.type = "created"
              /\ file_hash' = calculate_file_hash(fs, e.src, TRUE)
              /\ MonHandle(e, mon_on_created(hashes, e, file_hash'), TRUE)
           \/ /\ e.type = "modified"
              /\ file_hash' = calculate_file_hash(fs, e.src, TRUE)
              /\ MonHandle(e, mon_on_modified(hashes, e, file_hash'), TRUE)
           \/ /\ e.type = "deleted"
              /\ UNCHANGED file_hash
              /\ MonHandle(e, mon_on_deleted(hashes, e), TRUE)

NextTrack ==
    \/ Start
    \/ \E n \in TrackNames, c \in Contents : FsCreate(n, c)
    \/ \E p \in DOMAIN fs, c \in Contents : FsModify(p, c)
    \/ \E p \in DOMAIN fs : FsDelete(p)
    \/ Deliver
    \/ Return

InitTrack == Init /\ program = "monitor"

SpecTrack == InitTrack /\ [][NextTrack]_vars

\* ------------------------------------------------------ the watch loop
\* KeyboardInterrupt in the sleep loop: the except clause calls observer.stop().
\* The dispatch thread ends its current handler invocation and takes no other.
Interrupt ==
    /\ loop = "Watching"
    /\ loop' = "Stopping"
    /\ UNCHANGED <<program, root, fs, dirs, store, hashes, pdf_path, pc, event, attempts,
                   renamed_path, file_hash, organized_path, log, console, saved, mutated, nev>>
    /\ UNCHANGED <<opens, handles, other, queue, call>>

\* observer.join() returns: the dispatch thread has ended.
Join ==
    /\ loop = "Stopping"
    /\ pc \in {"idle", "done", "crashed"}
    /\ loop' = "Stopped"
    /\ UNCHANGED <<program, root, fs, dirs, store, hashes, pdf_path, pc, event, attempts,
                   renamed_path, file_hash, organized_path, log, console, saved, mutated, nev>>
    /\ UNCHANGED <<opens, handles, other, queue, call>>

\* KeyboardInterrupt while the main thread waits in observer.join(), which no
\* try encloses: monitor_folder is left by the exception and the process ends.
\* The observer's threads are daemon threads: the dispatch thread ends where it
\* is.
InterruptJoin ==
    /\ loop = "Stopping"
    /\ loop' = "Stopped"
    /\ UNCHANGED <<program, root, fs, dirs, store, hashes, pdf_path, pc, event, attempts,
                   renamed_path, file_hash, organized_path, log, console, saved, mutated, nev>>
    /\ UNCHANGED <<opens, handles, other, queue, call>>

\* The process, and with it the dispatch thread, is running.
Alive == loop \in {"Watching", "Stopping"}

NextLife ==
    \/ Start
    \/ Interrupt
    \/ Join
    \/ InterruptJoin
    \/ \E n \in DropNames, c \in Contents : EnvCreate(n, c)
    \/ \E p \in EventPaths[root] : KOnCreated(p, FALSE)
    \/ \E d \in EventDirs[root] : KOnCreated(d, TRUE)
    \/ \E ok \in BOOLEAN : Alive /\ KProbe(ok)
    \/ Alive /\ KProbeExit
    \/ \E openOk \in BOOLEAN, ok \in BOOLEAN : Alive /\ KRename(openOk, ok)
    \/ \E ok \in BOOLEAN : Alive /\ KHash(ok)
    \/ \E ok \in BOOLEAN, same \in BOOLEAN : Alive /\ KOrganize(ok, same)
    \/ \E ok \in BOOLEAN : Alive /\ KRecord(ok)
    \/ \E p \in TopPaths[root], ok \in BOOLEAN, w \in BOOLEAN : MOnCreated(p, FALSE, ok, w)
    \/ \E p \in TopPaths[root], w \in BOOLEAN : MOnDeleted(p, FALSE, w)
    \/ loop = "Watching" /\ Return

SpecLife == Init /\ [][NextLife]_vars

\* ---------------------------------------------------------------- claims
HasMsg(seq, k) == \E i \in 1..Len(seq) : seq[i].kind = k

\* The barcode value the page loop finds in the file at p, and the name
\* rename_pdf computes from it.
TokenOf(p) == ExtractFrom(Doc[fs[p]].pages, 1).value

NewPathOf(p) == PathJoin(Dirname(p), TokenOf(p) \o PdfExt)

\* The destination organize_file computes for the file at p.
DestPathOf(p) == PathJoin(DestDir(Basename(p)), Basename(p))

InPipeline == program = "komodo" /\ pc \in {"rename", "hash", "organize", "record"}

\* C1: when rename_pdf has extracted a barcode and something already exists at
\* dirname(path)/<barcode>.pdf, it renames nothing, returns the original path
\* and reports the skip; every file keeps its path and content.
C1_RenameNeverOverwrites ==
    [][(/\ pc = "rename"
        /\ HasMsg(console', "found_barcode")
        /\ Truthy(TokenOf(pdf_path))
        /\ Exists(fs, dirs, NewPathOf(pdf_path)))
       => (/\ fs' = fs
           /\ renamed_path' = pdf_path
           /\ HasMsg(console', "name_exists_skipping")
           /\ pc' = "hash")]_vars

\* C1 witness: rename_pdf has skipped because another file, of other content,
\* holds the name.
C1_Witness ==
    /\ pc = "hash"
    /\ HasMsg(console, "name_exists_skipping")
    /\ renamed_path = pdf_path
    /\ NewPathOf(pdf_path) \in DOMAIN fs
    /\ NewPathOf(pdf_path) # pdf_path
    /\ fs[NewPathOf(pdf_path)] # fs[pdf_path]

\* C2: when organize_file runs for a file whose computed destination already
\* holds another file, of other content, the move is skipped: no file changes
\* place or content.
C2_OrganizeNeverOverwrites ==
    [][(/\ program = "komodo"
        /\ pc = "organize"
        /\ DestPathOf(renamed_path) \in DOMAIN fs
        /\ DestPathOf(renamed_path) # renamed_path
        /\ fs[DestPathOf(renamed_path)] # fs[renamed_path])
       => (fs' = fs /\ organized_path' = None)]_vars

\* A file that is already renamed and organized: it lies at the destination
\* organize_file computes for it, under the name of its own barcode, and the
\* ledger holds the digest an earlier run recorded for it.
AlreadyOrganized(p) ==
    /\ p \in DOMAIN fs
    /\ Truthy(TokenOf(p))
    /\ Basename(p) = TokenOf(p) \o PdfExt
    /\ DestPathOf(p) = p
    /\ \E k \in DOMAIN hashes : hashes[k] = Sha256(fs[p])

\* C3: a run of on_created re-delivered for an already renamed and organized
\* file leaves every file where it is, with its content, and the ledger with
\* the same keys and digests.
C3_RedeliveryIdempotent ==
    [][(InPipeline /\ AlreadyOrganized(pdf_path))
       => (fs' = fs /\ hashes' = hashes)]_vars

\* C4: a run of on_created that recorded a digest has keyed it by the path
\* where the file lies at the end of the run.
C4_LedgerKeyIsFinalPath ==
    (program = "komodo" /\ pc = "done" /\ saved = "ok")
    => LET final == IF organized_path # None THEN organized_path ELSE renamed_path
       IN  /\ final \in DOMAIN fs
           /\ final \in DOMAIN hashes
           /\ hashes[final] = file_hash
           /\ mutated => renamed_path \in DOMAIN fs

\* C5: when no barcode is found the file is neither renamed nor moved: it is
\* still at the path of its event after organize_file has run.
C5_NoTokenNoMove ==
    (program = "komodo" /\ pc \in {"record", "done"} /\ HasMsg(console, "no_barcode_found"))
    => (pdf_path \in DOMAIN fs /\ renamed_path = pdf_path /\ organized_path = None)

\* C6: for a name shorter than 10 characters parse_barcode returns nothing
\* organize_file can use (no form id or no month), and organize_file then
\* creates no directory, moves nothing, returns none and logs the failure.
C6_ShortNameNotOrganized ==
    (program = "komodo" /\ pc = "record" /\ Len(Basename(renamed_path)) < 10)
    => /\ ~(Truthy(parse_barcode(Basename(renamed_path))[1])
             /\ Truthy(parse_barcode(Basename(renamed_path))[2]))
       /\ DestDir(Basename(renamed_path)) \notin dirs
       /\ organized_path = None
       /\ renamed_path \in DOMAIN fs
       /\ HasMsg(log, "failed_to_organize")

\* C7: for a name of at least 10 characters a successful organize_file has put
\* the file at <root>/<name[6:10]>/20<name[0:2]>-<name[2:4]>/<name>, root being
\* the watched folder, and that directory exists.
C7_DestinationUnderRoot ==
    (program = "komodo" /\ pc = "record" /\ organized_path # None
        /\ Len(Basename(renamed_path)) >= 10)
    => LET name == Basename(renamed_path)
           form_id == SubSeq(name, 7, 10)
           year_month == <<"2", "0">> \o SubSeq(name, 1, 2) \o <<"-">> \o SubSeq(name, 3, 4)
           dir == PathJoin(PathJoin(root, form_id), year_month)
       IN  /\ organized_path = PathJoin(dir, name)
           /\ organized_path \in DOMAIN fs
           /\ dir \in dirs

C9_LedgerFollowsMoves ==
    /\ (program = "monitor" /\ pc = "done" /\ ~event.is_directory
            /\ (event.type = "deleted" \/ (event.type = "moved" /\ event.dest # event.src)))
       => event.src \notin DOMAIN hashes
    /\ (program = "komodo" /\ pc = "done" /\ organized_path # None
            /\ organized_path # renamed_path)
       => renamed_path \notin DOMAIN hashes

\* C10: no failure inside one event's handling leaves the handler.
C10_NoExceptionLeavesHandler == pc # "crashed"

Count(seq, k) == Cardinality({i \in 1..Len(seq) : seq[i].kind = k})

\* C11: of two creation events for one path, the second run starts when the
\* first has returned.  Over both runs the file is renamed at most once and
\* moved at most once, no file disappears, the ledger holds at most the one
\* entry of that file, a digest, and the ledger file holds what a successful
\* save wrote; a second run that finds the path empty changes nothing.
C11_DuplicateIsSafe ==
    /\ [](/\ Count(console, "renamed_to") <= 1
          /\ Count(log, "moved_to") <= 1
          /\ Cardinality(DOMAIN hashes) <= 1
          /\ \A k \in DOMAIN hashes : \E c \in Contents : hashes[k] = Sha256(c)
          /\ (pc = "done" /\ saved = "ok") => load_hash_store(store) = hashes)
    /\ [][/\ nev >= 1 => Cardinality(DOMAIN fs') = Cardinality(DOMAIN fs)
          /\ (nev = 2 /\ pc = "stabilize" /\ pdf_path \notin DOMAIN fs)
             => (/\ UNCHANGED <<fs, dirs, hashes, store, log>>
                 /\ pc' \in {"stabilize", "done"})]_vars

\* C11 witness: the first run renamed and organized the file, and the second
\* run, started after it, found the path empty and gave up.
C11_Witness ==
    /\ nev = 2
    /\ pc = "done"
    /\ HasMsg(console, "renamed_to")
    /\ HasMsg(log, "moved_to")
    /\ HasMsg(console, "file_not_ready")
    /\ Cardinality(DOMAIN hashes) = 1
    /\ pdf_path \notin DOMAIN fs

\* C12: the loop moves only Idle -> Watching -> Stopping -> Stopped; it is
\* Stopped only when no handler invocation is under way, so that none was cut
\* short; and once it is Stopped no invocation starts or goes on.
C12_Lifecycle ==
    /\ [](loop = "Stopped" => pc \in {"idle", "done", "crashed"})
    /\ [][/\ loop' # loop
             => <<loop, loop'>> \in {<<"Idle", "Watching">>, <<"Watching", "Stopping">>,
                                     <<"Stopping", "Stopped">>}
          /\ loop = "Stopped" => (pc' = pc /\ nev' = nev)]_vars

\* C13: a creation event of komodo.py for a directory, or for a path ending in
\* .tmp, ends the handler at once: no probe of the file is made and the files,
\* the directories, the ledger in memory and on disk, the log, the console and
\* self.pdf_path are as before.
C13_IgnoredEventsDiscarded ==
    [][(/\ program = "komodo"
        /\ pc = "idle"
        /\ event'.type = "created"
        /\ (event'.is_directory \/ EndsWith(event'.src, TmpExt)))
       => (/\ pc' = "done"
           /\ attempts' = 0
           /\ UNCHANGED <<fs, dirs, hashes, store, log, console, pdf_path, handles, opens>>)]_vars

\* C13 witness: a creation event for an existing .tmp file has been discarded
\* after an earlier run had set self.pdf_path to another path.
C13_Witness ==
    /\ program = "komodo"
    /\ pc = "done"
    /\ event.type = "created"
    /\ EndsWith(event.src, TmpExt)
    /\ event.src \in DOMAIN fs
    /\ pdf_path # None
    /\ pdf_path # event.src
    /\ attempts = 0

\* The run of on_created under way has passed wait_for_file_stable.
Stabilized ==
    program = "komodo" /\ pc \in {"probed", "rename", "hash", "organize", "record"}

\* C14: wait_for_file_stable makes at most max_attempts probes and ends: every
\* probe either opens the file, and the function returns True with no further
\* probe, or fails and is counted; it returns False exactly when max_attempts
\* probes in a row have failed; the file a probe opened is closed when the
\* function has returned.
C14_BoundedProbes ==
    /\ [](/\ attempts <= max_attempts
          /\ pc = "stabilize" => (attempts < max_attempts /\ handles = 0)
          /\ pc = "probed" => handles = 1
          /\ pc # "probed" => handles = 0
          /\ Stabilized => attempts < max_attempts
          /\ HasMsg(console, "file_not_ready") <=> attempts = max_attempts)
    /\ [][/\ pc = "stabilize"
             => \/ pc' = "probed" /\ attempts' = attempts
                \/ pc' = "stabilize" /\ attempts' = attempts + 1
                \/ pc' = "done" /\ attempts' = max_attempts
          /\ pc = "probed"
             => pc' \in {"rename", "done"} /\ attempts' = attempts /\ handles' = 0]_vars

\* C14 witness: the fifth probe has opened the file after four failures.
C14_Witness ==
    /\ pc = "probed"
    /\ attempts = max_attempts - 1
    /\ handles = 1
    /\ pdf_path \in DOMAIN fs

\* C15: when wait_for_file_stable has returned False, on_created has ended
\* without extracting, renaming, hashing or moving, the ledger in memory and on
\* disk is as before, and the log file holds a line for the skip.
C15_ExhaustionIsLoggedSkip ==
    (program = "komodo" /\ pc = "done" /\ attempts = max_attempts)
    => /\ opens = 0
       /\ renamed_path = None
       /\ file_hash = None
       /\ organized_path = None
       /\ ~mutated
       /\ saved = "none"
       /\ HasMsg(log, "file_not_ready")

\* The pages of call.pages that decode to something: they do not throw and
\* carry a barcode.
Hits == {i \in 1..Len(call.pages) : ~call.pages[i].throws /\ call.pages[i].barcodes # <<>>}

FirstHit == CHOOSE m \in Hits : \A i \in Hits : m <= i

\* C16: extract_barcodes, once the document is open, visits the pages in
\* increasing order up to the first page that decodes to something, prints a
\* line for each visited page that threw and goes on, and returns the first
\* barcode of that page; it visits every page and returns none exactly when no
\* page decodes to anything.
C16_FirstMatch ==
    (call.applied /\ ~call.exc)
    => LET ps == call.pages
           last == IF Hits = {} THEN Len(ps) ELSE FirstHit
           threw(i) == ps[i].throws
           errs == SelectSeq(call.visited, threw)
       IN  /\ call.visited = [i \in 1..last |-> i]
           /\ call.value = IF Hits = {} THEN None ELSE ps[FirstHit].barcodes[1]
           /\ (call.value = None) <=> (Hits = {})
           /\ call.out = [j \in 1..Len(errs) |-> Msg("page_error", <<errs[j]>>, None)]
                          \o (IF Hits = {} THEN <<>>
                              ELSE <<Msg("found_barcode", call.value, <<FirstHit>>)>>)

\* C16 witness: the first page threw, the second carries two barcodes, of
\* which the first is returned, and the third, which carries one, was not
\* visited.
C16_Witness ==
    /\ call.applied
    /\ ~call.exc
    /\ Len(call.pages) = 3
    /\ call.pages[1].throws
    /\ call.pages[2] = Page(FALSE, <<TokAB, Tok1>>)
    /\ call.pages[3] = Page(FALSE, <<Tok1>>)
    /\ call.value = TokAB
    /\ call.visited = <<1, 2>>
    /\ HasMsg(call.out, "page_error")

\* C17: a run of on_created that ended because the document could not be
\* opened has tried to open it as often as open_pdf_with_retries would: a
\* single failure of fitz.open does not end the run.
C17_OpenIsRetried ==
    (/\ program = "komodo"
     /\ pc = "done"
     /\ \E i \in 1..Len(console) :
           console[i].kind = "error_processing" /\ console[i].b = FileDataError)
    => opens = open_pdf_with_retries([i \in 1..retries |-> FALSE]).opens

\* C18: calculate_file_hash gives none, and raises nothing, for a path that
\* holds no file; and a handler whose digest is none leaves self.hashes and the
\* ledger file as they were and writes no ledger line to the log: on_created
\* of komodo.py, which goes on to organize_file, and on_created and
\* on_modified of monitor.py.
C18_HashFailureIsSoft ==
    [][/\ (program = "komodo" /\ pc = "hash")
          => /\ pc' = "organize"
             /\ renamed_path \notin DOMAIN fs => file_hash' = None
       /\ (program = "komodo" /\ pc = "record" /\ file_hash = None)
          => (pc' = "done" /\ UNCHANGED <<hashes, store, log, saved, mutated>>)
       /\ (program = "komodo" /\ pc \notin {"idle", "record"})
          => UNCHANGED <<hashes, store>>
       /\ (program = "monitor" /\ pc = "idle" /\ event'.type \in {"created", "modified"})
          => /\ (~event'.is_directory /\ event'.src \notin DOMAIN fs) => file_hash' = None
             /\ file_hash' = None
                => (pc' = "done" /\ log' = <<>> /\ UNCHANGED <<hashes, store>>)]_vars

\* C18 witness: a run of komodo.py could not read the file it had renamed; it
\* organized the file and recorded nothing, and the entry of an earlier run is
\* still the whole ledger.
C18_Witness ==
    /\ program = "komodo"
    /\ pc = "done"
    /\ HasMsg(console, "renamed_to")
    /\ HasMsg(console, "error_hashing")
    /\ organized_path # None
    /\ saved = "none"
    /\ Cardinality(DOMAIN hashes) = 1
    /\ load_hash_store(store) = hashes
    /\ renamed_path \notin DOMAIN hashes

\* C19: when two invocations of on_created for different paths run on one
\* handler instance, the file rename_pdf takes away from its path, and the file
\* whose new path the invocation goes on to hash, organize and record, is the
\* file of that invocation's own event.
C19_NoCrossRunInterference ==
    [][/\ (pc = "rename" /\ pc' = "hash" /\ other.pc # "idle" /\ other.src # event.src)
          => /\ \A p \in DOMAIN fs \ DOMAIN fs' : p = event.src
             /\ renamed_path' \in {event.src, NewPathOf(event.src)}
       /\ (other.pc = "rename" /\ other'.pc = "hash" /\ pc # "idle"
             /\ other.src # event.src)
          => /\ \A p \in DOMAIN fs \ DOMAIN fs' : p = other.src
             /\ other'.renamed_path \in {other.src, NewPathOf(other.src)}]_vars

\* C20: in monitor.py, once every queued event has been handled, the keys of
\* the ledger are the files that exist and each maps to the digest of its
\* file's content, in memory and in the ledger file; and an on_modified whose
\* digest is the stored one changes no entry.
C20_LedgerTracksFiles ==
    /\ []((program = "monitor" /\ queue = <<>> /\ pc \in {"idle", "done"})
          => /\ DOMAIN hashes = DOMAIN fs
             /\ \A p \in DOMAIN fs : hashes[p] = Sha256(fs[p])
             /\ load_hash_store(store) = hashes)
    /\ [][(/\ pc = "idle"
            /\ event'.type = "modified"
            /\ event'.src \in DOMAIN hashes
            /\ file_hash' = hashes[event'.src])
           => hashes' = hashes]_vars

\* C20 witness: a file was created, rewritten with other content, and both
\* events have been handled.
C20_Witness ==
    /\ program = "monitor"
    /\ queue = <<>>
    /\ pc = "done"
    /\ nev = 2
    /\ event.type = "modified"
    /\ HasMsg(log, "modified_hash_changed")
    /\ event.src \in DOMAIN fs
    /\ hashes[event.src] = Sha256(fs[event.src])

====
